---- MODULE Spec2Model ----
(***************************************************************************)
(* Veil: exponential ElGamal over a prime-order group, homomorphic balance *)
(* updates, hash-commitment "proofs", and the ShieldedPool ledger.         *)
(*                                                                         *)
(* Group model.  The Stark curve is a cyclic group of prime order n        *)
(* generated by G, so every point is k*G for exactly one k in 0..n-1.  A   *)
(* point is represented by that k (Identity = 0), point addition is        *)
(* addition mod n and scalar multiplication is multiplication mod n.  The  *)
(* order is scaled down to a small prime.  Affine coordinates keep the one *)
(* fact the code depends on: P and -P share their x coordinate and differ  *)
(* in y.                                                                   *)
(***************************************************************************)
EXTENDS Integers, Sequences, FiniteSets, TLC

\* ------------------------------------------------------------------------
\*  Bounds of the model
\* ------------------------------------------------------------------------
MaxScalar == 2      \* private keys / randomness are 1..MaxScalar and n-1
MaxAmount == 3      \* plaintext amounts are 0..MaxAmount
MaxBound == 12      \* decrypt round trips: amounts and maxAmount are 0..MaxBound
MaxDeposited == 2   \* the pool accepts deposits up to this lifetime total
MaxTx == 3          \* the wallets submit at most this many transactions
MaxCalls == 3       \* nextNullifier is called at most this many times

\* ------------------------------------------------------------------------
\*  curve.ts
\* ------------------------------------------------------------------------
CURVE_ORDER == 101

G == 1

ZERO == 0

mod(n) == n % CURVE_ORDER

scalarMulG(scalar) == IF scalar = 0 THEN ZERO ELSE (G * mod(scalar)) % CURVE_ORDER

isZero(point) == point = ZERO

scalarMul(point, scalar) ==
    IF scalar = 0 THEN ZERO
    ELSE IF point = ZERO THEN ZERO
    ELSE (point * mod(scalar)) % CURVE_ORDER

pointAdd(p, q) == (p + q) % CURVE_ORDER

pointNeg(p) == (CURVE_ORDER - p) % CURVE_ORDER

pointSub(p, q) == pointAdd(p, pointNeg(q))

\* Affine coordinates of a point: k*G and (n-k)*G have the same x and
\* opposite y (y = 1 for the "upper" half, 2 for the "lower" one); the
\* identity has the affine form (0, 0).
toAffine(point) ==
    IF point = ZERO THEN [x |-> 0, y |-> 0]
    ELSE IF point <= CURVE_ORDER - point
    THEN [x |-> point, y |-> 1]
    ELSE [x |-> CURVE_ORDER - point, y |-> 2]

\* Point.fromAffine maps (0, 0) to the identity.
fromAffine(x, y) ==
    IF x = 0 /\ y = 0 THEN ZERO
    ELSE IF y = 1 THEN x ELSE CURVE_ORDER - x

\* ------------------------------------------------------------------------
\*  Pedersen hash: a deterministic two-input compression function, modelled
\*  as a collision-free pairing of naturals that never yields 0.
\* ------------------------------------------------------------------------
pedersen(a, b) == ((a + b) * (a + b + 1)) \div 2 + b + 1

\* ------------------------------------------------------------------------
\*  elgamal.ts
\* ------------------------------------------------------------------------
\* The scalars randomScalar() / generateKeyPair() can return: [1, n-1].
Scalars == (1..MaxScalar) \cup {CURVE_ORDER - 1}

Amounts == 0..MaxAmount

\* Mutant: the reduced value is returned as it is, zero included.
randomScalar_NoZeroFix(raw) == mod(raw)

\* randomScalar() with raw the 256-bit integer read from the 32 random bytes.
randomScalar(raw) == IF mod(raw) = 0 THEN 1 ELSE mod(raw)

\* generateKeyPair() with raw the integer its randomScalar() call read.
generateKeyPair(raw) ==
    LET privateKey == randomScalar(raw)
        publicKey  == scalarMulG(privateKey)
    IN  [privateKey |-> privateKey, publicKey |-> publicKey]

derivePublicKey(privateKey) == scalarMulG(privateKey)

\* Mutant: the amount is not checked.
encrypt_NoCheck(amount, publicKey, r) ==
    LET c1  == scalarMulG(r)
        mG  == IF amount = 0 THEN ZERO ELSE scalarMulG(amount)
        rPK == scalarMul(publicKey, r)
        c2  == pointAdd(mG, rPK)
    IN  [err |-> "", ct |-> [c1 |-> c1, c2 |-> c2], r |-> r, draws |-> 1]

\* encrypt(amount, publicKey) with r the value its randomScalar() call drew;
\* draws counts the randomScalar() calls made before the function returned
\* or threw.
encrypt(amount, publicKey, r) ==
    IF amount < 0 THEN [err |-> "Amount must be non-negative", draws |-> 0]
    ELSE LET c1  == scalarMulG(r)
             mG  == IF amount = 0 THEN ZERO ELSE scalarMulG(amount)
             rPK == scalarMul(publicKey, r)
             c2  == pointAdd(mG, rPK)
         IN  [err |-> "", ct |-> [c1 |-> c1, c2 |-> c2], r |-> r, draws |-> 1]

encryptWithRandomness(amount, publicKey, r) ==
    LET c1  == scalarMulG(r)
        mG  == IF amount = 0 THEN ZERO ELSE scalarMulG(amount)
        rPK == scalarMul(publicKey, r)
        c2  == pointAdd(mG, rPK)
    IN  [c1 |-> c1, c2 |-> c2]

\* decrypt returns bigint | null, or throws.
Found(m) == [found |-> TRUE, m |-> m]

NotFound == [found |-> FALSE, m |-> 0]

Thrown(e) == [found |-> FALSE, m |-> 0, err |-> e]

RECURSIVE sqrtLoop(_, _, _)
sqrtLoop(n, x, y) ==
    IF y < x THEN sqrtLoop(n, y, (y + (n \div y)) \div 2) ELSE x

sqrt(n) == IF n = 0 THEN 0 ELSE sqrtLoop(n, n, (n + 1) \div 2)

\* Map key of a point: "O" for the identity (key 0 here; no other point has
\* x = 0), the hex string of the affine x coordinate otherwise.
pointKey(p) == IF isZero(p) THEN 0 ELSE toAffine(p).x

\* The baby-step table after the loop for j in [0, m): table.set overwrites,
\* so a key keeps the last j that produced it.
babyTable(m) ==
    LET keys == {pointKey(scalarMulG(j)) : j \in 0..(m - 1)}
    IN  [k \in keys |->
            CHOOSE j \in 0..(m - 1) :
                /\ pointKey(scalarMulG(j)) = k
                /\ \A j2 \in (j + 1)..(m - 1) : pointKey(scalarMulG(j2)) # k]

RECURSIVE giantStep(_, _, _, _, _)
giantStep(gamma, i, m, table, mG) ==
    IF i >= m THEN NotFound
    ELSE IF pointKey(gamma) \in DOMAIN table
         THEN Found(i * m + table[pointKey(gamma)])
         ELSE giantStep(pointSub(gamma, mG), i + 1, m, table, mG)

\* Mutant: the table size without the "+ 1".
babyStepGiantStep_NoExtraStep(target, maxAmount) ==
    IF maxAmount < 0 THEN Thrown("Negative input")
    ELSE LET m == sqrt(maxAmount)
         IN  giantStep(target, 0, m, babyTable(m), scalarMulG(m))

\* sqrt throws on a negative maxAmount before any step is taken.
babyStepGiantStep(target, maxAmount) ==
    IF maxAmount < 0 THEN Thrown("Negative input")
    ELSE LET m == sqrt(maxAmount) + 1
         IN  giantStep(target, 0, m, babyTable(m), scalarMulG(m))

\* Mutant: no identity fast path, every call runs the search.
decrypt_NoFastPath(ct, sk, maxAmount) ==
    LET skC1 == scalarMul(ct.c1, sk)
        mG   == pointSub(ct.c2, skC1)
    IN  babyStepGiantStep(mG, maxAmount)

decrypt(ct, sk, maxAmount) ==
    LET skC1 == scalarMul(ct.c1, sk)
        mG   == pointSub(ct.c2, skC1)
    IN  IF isZero(mG) THEN Found(0) ELSE babyStepGiantStep(mG, maxAmount)

\* Mutant: the sentinel is emitted as soon as one component is the identity.
serializeCiphertext_AnyZero(ct) ==
    IF isZero(ct.c1) \/ isZero(ct.c2)
    THEN [c1_x |-> 0, c1_y |-> 0, c2_x |-> 0, c2_y |-> 0]
    ELSE LET c1Aff == toAffine(ct.c1)
             c2Aff == toAffine(ct.c2)
         IN  [c1_x |-> c1Aff.x, c1_y |-> c1Aff.y, c2_x |-> c2Aff.x, c2_y |-> c2Aff.y]

serializeCiphertext(ct) ==
    IF isZero(ct.c1) /\ isZero(ct.c2)
    THEN [c1_x |-> 0, c1_y |-> 0, c2_x |-> 0, c2_y |-> 0]
    ELSE LET c1Aff == IF isZero(ct.c1) THEN [x |-> 0, y |-> 0] ELSE toAffine(ct.c1)
             c2Aff == IF isZero(ct.c2) THEN [x |-> 0, y |-> 0] ELSE toAffine(ct.c2)
         IN  [c1_x |-> c1Aff.x, c1_y |-> c1Aff.y, c2_x |-> c2Aff.x, c2_y |-> c2Aff.y]

zeroCiphertext == [c1 |-> ZERO, c2 |-> ZERO]

\* e2e.mjs: serCt / ctFromSer.
serCt(ct) ==
    IF ct.c1 = ZERO /\ ct.c2 = ZERO
    THEN [c1_x |-> 0, c1_y |-> 0, c2_x |-> 0, c2_y |-> 0]
    ELSE LET a1 == toAffine(ct.c1)
             a2 == toAffine(ct.c2)
         IN  [c1_x |-> a1.x, c1_y |-> a1.y, c2_x |-> a2.x, c2_y |-> a2.y]

\* Mutant: an all-zero component is not recognised on its own.
ctFromSer_WholeOnly(s) ==
    LET isZeroT == s.c1_x = 0 /\ s.c1_y = 0 /\ s.c2_x = 0 /\ s.c2_y = 0
    IN  IF isZeroT THEN zeroCiphertext
        ELSE [c1 |-> IF s.c1_y = 1 THEN s.c1_x ELSE CURVE_ORDER - s.c1_x,
              c2 |-> IF s.c2_y = 1 THEN s.c2_x ELSE CURVE_ORDER - s.c2_x]

ctFromSer(s) ==
    LET isZeroT == s.c1_x = 0 /\ s.c1_y = 0 /\ s.c2_x = 0 /\ s.c2_y = 0
    IN  IF isZeroT THEN zeroCiphertext
        ELSE [c1 |-> fromAffine(s.c1_x, s.c1_y), c2 |-> fromAffine(s.c2_x, s.c2_y)]

\* ------------------------------------------------------------------------
\*  homomorphic.ts
\* ------------------------------------------------------------------------
\* Mutant: the ephemeral components are not combined.
addCiphertexts_KeepC1(a, b) ==
    [c1 |-> a.c1, c2 |-> pointAdd(a.c2, b.c2)]

addCiphertexts(a, b) ==
    [c1 |-> pointAdd(a.c1, b.c1), c2 |-> pointAdd(a.c2, b.c2)]

\* Mutant: the ephemeral component is added instead of subtracted.
subtractCiphertexts_AddC1(a, b) ==
    [c1 |-> pointAdd(a.c1, b.c1), c2 |-> pointSub(a.c2, b.c2)]

subtractCiphertexts(a, b) ==
    [c1 |-> pointSub(a.c1, b.c1), c2 |-> pointSub(a.c2, b.c2)]

\* Mutant: the fresh encryption replaces the current balance.
computeDepositBalance_DropCurrent(currentBalance, depositAmount, publicKey, r) ==
    LET enc == encrypt(depositAmount, publicKey, r)
    IN  IF enc.err # "" THEN [err |-> enc.err]
        ELSE [err |-> "", newBalance |-> enc.ct,
              serialized |-> serializeCiphertext(enc.ct)]

\* r is the randomness drawn by the encrypt call inside.
computeDepositBalance(currentBalance, depositAmount, publicKey, r) ==
    LET enc == encrypt(depositAmount, publicKey, r)
    IN  IF enc.err # "" THEN [err |-> enc.err]
        ELSE LET newBalance == addCiphertexts(currentBalance, enc.ct)
             IN  [err |-> "", newBalance |-> newBalance,
                  serialized |-> serializeCiphertext(newBalance)]

\* Mutant: the sender-keyed encryption is reused for the recipient.
computeTransferBalances_ReuseSenderEnc(senderBalance, recipientBalance, amount, senderPK, recipientPK, rS, rR) ==
    LET encS == encrypt(amount, senderPK, rS)
    IN  IF encS.err # "" THEN [err |-> encS.err]
        ELSE LET newSenderBalance    == subtractCiphertexts(senderBalance, encS.ct)
                 newRecipientBalance == addCiphertexts(recipientBalance, encS.ct)
             IN  [err |-> "",
                  newSenderBalance    |-> newSenderBalance,
                  newRecipientBalance |-> newRecipientBalance,
                  senderSerialized    |-> serializeCiphertext(newSenderBalance),
                  recipientSerialized |-> serializeCiphertext(newRecipientBalance)]

\* Mutant: a zero amount is refused.
computeTransferBalances_RejectZero(senderBalance, recipientBalance, amount, senderPK, recipientPK, rS, rR) ==
    LET encS == encrypt(amount, senderPK, rS)
        encR == encrypt(amount, recipientPK, rR)
    IN  IF amount <= 0 THEN [err |-> "Amount must be positive"]
        ELSE LET newSenderBalance    == subtractCiphertexts(senderBalance, encS.ct)
                 newRecipientBalance == addCiphertexts(recipientBalance, encR.ct)
             IN  [err |-> "",
                  newSenderBalance    |-> newSenderBalance,
                  newRecipientBalance |-> newRecipientBalance,
                  senderSerialized    |-> serializeCiphertext(newSenderBalance),
                  recipientSerialized |-> serializeCiphertext(newRecipientBalance)]

\* rS, rR are the draws of the first and of the second encrypt call.
computeTransferBalances(senderBalance, recipientBalance, amount, senderPK, recipientPK, rS, rR) ==
    LET encS == encrypt(amount, senderPK, rS)
        encR == encrypt(amount, recipientPK, rR)
    IN  IF encS.err # "" THEN [err |-> encS.err]
        ELSE LET newSenderBalance    == subtractCiphertexts(senderBalance, encS.ct)
                 newRecipientBalance == addCiphertexts(recipientBalance, encR.ct)
             IN  [err |-> "",
                  newSenderBalance    |-> newSenderBalance,
                  newRecipientBalance |-> newRecipientBalance,
                  senderSerialized    |-> serializeCiphertext(newSenderBalance),
                  recipientSerialized |-> serializeCiphertext(newRecipientBalance)]

computeWithdrawBalance(currentBalance, withdrawAmount, publicKey, r) ==
    LET enc == encrypt(withdrawAmount, publicKey, r)
    IN  IF enc.err # "" THEN [err |-> enc.err]
        ELSE LET newBalance == subtractCiphertexts(currentBalance, enc.ct)
             IN  [err |-> "", newBalance |-> newBalance,
                  serialized |-> serializeCiphertext(newBalance)]

\* ------------------------------------------------------------------------
\*  proof.ts
\* ------------------------------------------------------------------------
\* Mutant: the balance check rejects the boundary balance = amount.
generateTransferProof_StrictBalance(senderSk, senderBalance, amount, nullifier, newSenderBalance, newRecipientBalance) ==
    IF amount <= 0 THEN [err |-> "Amount must be positive"]
    ELSE IF senderBalance <= amount THEN [err |-> "Insufficient balance"]
    ELSE LET h1 == pedersen(senderSk, senderBalance)
             h2 == pedersen(h1, amount)
             proofHash == pedersen(h2, nullifier)
         IN  [err |-> "",
              proofHash |-> proofHash,
              nullifier |-> nullifier,
              senderNewBalance    |-> serializeCiphertext(newSenderBalance),
              recipientNewBalance |-> serializeCiphertext(newRecipientBalance)]

\* Mutant: the nullifier is hashed before the amount.
generateTransferProof_HashOrder(senderSk, senderBalance, amount, nullifier, newSenderBalance, newRecipientBalance) ==
    IF amount <= 0 THEN [err |-> "Amount must be positive"]
    ELSE IF senderBalance < amount THEN [err |-> "Insufficient balance"]
    ELSE LET h1 == pedersen(senderSk, senderBalance)
             h2 == pedersen(h1, nullifier)
             proofHash == pedersen(h2, amount)
         IN  [err |-> "",
              proofHash |-> proofHash,
              nullifier |-> nullifier,
              senderNewBalance    |-> serializeCiphertext(newSenderBalance),
              recipientNewBalance |-> serializeCiphertext(newRecipientBalance)]

generateTransferProof(senderSk, senderBalance, amount, nullifier, newSenderBalance, newRecipientBalance) ==
    IF amount <= 0 THEN [err |-> "Amount must be positive"]
    ELSE IF senderBalance < amount THEN [err |-> "Insufficient balance"]
    ELSE LET h1 == pedersen(senderSk, senderBalance)
             h2 == pedersen(h1, amount)
             proofHash == pedersen(h2, nullifier)
         IN  [err |-> "",
              proofHash |-> proofHash,
              nullifier |-> nullifier,
              senderNewBalance    |-> serializeCiphertext(newSenderBalance),
              recipientNewBalance |-> serializeCiphertext(newRecipientBalance)]

\* Mutant: the balance check runs before the amount check.
generateWithdrawProof_BalanceFirst(sk, balance, amount, nullifier, newBalance) ==
    IF balance < amount THEN [err |-> "Insufficient balance"]
    ELSE IF amount <= 0 THEN [err |-> "Amount must be positive"]
    ELSE LET h1 == pedersen(sk, balance)
             h2 == pedersen(h1, amount)
             proofHash == pedersen(h2, nullifier)
         IN  [err |-> "",
              proofHash |-> proofHash,
              nullifier |-> nullifier,
              newBalance |-> serializeCiphertext(newBalance)]

generateWithdrawProof(sk, balance, amount, nullifier, newBalance) ==
    IF amount <= 0 THEN [err |-> "Amount must be positive"]
    ELSE IF balance < amount THEN [err |-> "Insufficient balance"]
    ELSE LET h1 == pedersen(sk, balance)
             h2 == pedersen(h1, amount)
             proofHash == pedersen(h2, nullifier)
         IN  [err |-> "",
              proofHash |-> proofHash,
              nullifier |-> nullifier,
              newBalance |-> serializeCiphertext(newBalance)]

\* ------------------------------------------------------------------------
\*  nullifier.ts
\* ------------------------------------------------------------------------
\* Mutant: the nonce is left out of the hash.
generateNullifier_IgnoreNonce(privateKey, nonce) == pedersen(privateKey, 0)

generateNullifier(privateKey, nonce) == pedersen(privateKey, nonce)

\* Mutant: the domain tag is left out.
generateDomainNullifier_NoTag(privateKey, nonce, domain) ==
    LET inner == pedersen(privateKey, nonce)
    IN  pedersen(inner, 0)

generateDomainNullifier(privateKey, nonce, domain) ==
    LET domainTag == IF domain = "transfer" THEN 1 ELSE 2
        inner     == pedersen(privateKey, nonce)
    IN  pedersen(inner, domainTag)

nonceFromCounter(counter) == counter

\* ------------------------------------------------------------------------
\*  ShieldedPool (Cairo contract)
\* ------------------------------------------------------------------------
\* Starknet addresses that call the pool.  1 and 2 run the wallet with the
\* private keys below; 3 is any other account.
Users == {1, 2}

Addrs == Users \cup {3}

UserSk(a) == IF a = 1 THEN 2 ELSE 3

UserPk(a) == toAffine(derivePublicKey(UserSk(a)))

\* Public keys (affine) presented to the pool.
PoolPks == {UserPk(a) : a \in Users}

hash_pk(pk_x, pk_y) == pedersen(pk_x, pk_y)

PkHashes == {hash_pk(pk.x, pk.y) : pk \in PoolPks}

\* Storage right after the constructor: every Map entry reads as 0 / false.
StorageInit ==
    [registered         |-> {},
     pk_to_address      |-> [h \in PkHashes |-> 0],
     address_to_pk_hash |-> [a \in Addrs |-> 0],
     balance_c1_x       |-> [h \in PkHashes |-> 0],
     balance_c1_y       |-> [h \in PkHashes |-> 0],
     balance_c2_x       |-> [h \in PkHashes |-> 0],
     balance_c2_y       |-> [h \in PkHashes |-> 0],
     nullifiers         |-> {},
     total_value_locked |-> 0]

\* A failed assert panics and Starknet reverts the transaction: storage is
\* what it was before the call.
Panic(pre, e) == [err |-> e, s |-> pre]

Ok(post) == [err |-> "", s |-> post]

writeBalance(s, pk_hash, ct) ==
    [s EXCEPT !.balance_c1_x[pk_hash] = ct.c1_x,
              !.balance_c1_y[pk_hash] = ct.c1_y,
              !.balance_c2_x[pk_hash] = ct.c2_x,
              !.balance_c2_y[pk_hash] = ct.c2_y]

register(s, caller, pk_x, pk_y) ==
    LET pk_hash == hash_pk(pk_x, pk_y)
    IN  IF pk_hash \in s.registered THEN Panic(s, "ALREADY_REGISTERED")
        ELSE IF s.address_to_pk_hash[caller] # 0 THEN Panic(s, "ADDRESS_ALREADY_BOUND")
        ELSE Ok(writeBalance(
                  [s EXCEPT !.registered = @ \cup {pk_hash},
                            !.pk_to_address[pk_hash] = caller,
                            !.address_to_pk_hash[caller] = pk_hash],
                  pk_hash, [c1_x |-> 0, c1_y |-> 0, c2_x |-> 0, c2_y |-> 0]))

deposit(s, caller, amount, new_balance) ==
    LET pk_hash == s.address_to_pk_hash[caller]
    IN  IF pk_hash = 0 THEN Panic(s, "NOT_REGISTERED")
        ELSE IF ~(amount > 0) THEN Panic(s, "ZERO_AMOUNT")
        ELSE LET s1 == writeBalance(s, pk_hash, new_balance)
             IN  Ok([s1 EXCEPT !.total_value_locked = @ + amount])

\* Mutant: the nullifier freshness assert is missing.
transfer_NoNullifierCheck(s, caller, recipient_pk_x, recipient_pk_y, new_sender_balance, new_recipient_balance, proof_hash, nullifier) ==
    LET sender_pk_hash    == s.address_to_pk_hash[caller]
        recipient_pk_hash == hash_pk(recipient_pk_x, recipient_pk_y)
    IN  IF sender_pk_hash = 0 THEN Panic(s, "SENDER_NOT_REGISTERED")
        ELSE IF recipient_pk_hash \notin s.registered THEN Panic(s, "RECIPIENT_NOT_REGISTERED")
        ELSE IF proof_hash = 0 THEN Panic(s, "INVALID_PROOF")
        ELSE LET s1 == [s EXCEPT !.nullifiers = @ \cup {nullifier}]
                 s2 == writeBalance(s1, sender_pk_hash, new_sender_balance)
                 s3 == writeBalance(s2, recipient_pk_hash, new_recipient_balance)
             IN  Ok(s3)

transfer(s, caller, recipient_pk_x, recipient_pk_y, new_sender_balance, new_recipient_balance, proof_hash, nullifier) ==
    LET sender_pk_hash    == s.address_to_pk_hash[caller]
        recipient_pk_hash == hash_pk(recipient_pk_x, recipient_pk_y)
    IN  IF sender_pk_hash = 0 THEN Panic(s, "SENDER_NOT_REGISTERED")
        ELSE IF recipient_pk_hash \notin s.registered THEN Panic(s, "RECIPIENT_NOT_REGISTERED")
        ELSE IF nullifier \in s.nullifiers THEN Panic(s, "NULLIFIER_SPENT")
        ELSE IF proof_hash = 0 THEN Panic(s, "INVALID_PROOF")
        ELSE LET s1 == [s EXCEPT !.nullifiers = @ \cup {nullifier}]
                 s2 == writeBalance(s1, sender_pk_hash, new_sender_balance)
                 s3 == writeBalance(s2, recipient_pk_hash, new_recipient_balance)
             IN  Ok(s3)

\* The nullifier and the balance are written before the TVL assert; when that
\* assert panics the writes are reverted with the rest of the transaction.
\* Mutant: the writes made before the locked-value assert survive its failure.
withdraw_KeepsWrites(s, caller, amount, new_balance, proof_hash, nullifier) ==
    LET pk_hash == s.address_to_pk_hash[caller]
    IN  IF pk_hash = 0 THEN Panic(s, "NOT_REGISTERED")
        ELSE IF ~(amount > 0) THEN Panic(s, "ZERO_AMOUNT")
        ELSE IF nullifier \in s.nullifiers THEN Panic(s, "NULLIFIER_SPENT")
        ELSE IF proof_hash = 0 THEN Panic(s, "INVALID_PROOF")
        ELSE LET s1  == [s EXCEPT !.nullifiers = @ \cup {nullifier}]
                 s2  == writeBalance(s1, pk_hash, new_balance)
                 tvl == s2.total_value_locked
             IN  IF ~(tvl >= amount) THEN Panic(s2, "INSUFFICIENT_POOL_BALANCE")
                 ELSE Ok([s2 EXCEPT !.total_value_locked = tvl - amount])

withdraw(s, caller, amount, new_balance, proof_hash, nullifier) ==
    LET pk_hash == s.address_to_pk_hash[caller]
    IN  IF pk_hash = 0 THEN Panic(s, "NOT_REGISTERED")
        ELSE IF ~(amount > 0) THEN Panic(s, "ZERO_AMOUNT")
        ELSE IF nullifier \in s.nullifiers THEN Panic(s, "NULLIFIER_SPENT")
        ELSE IF proof_hash = 0 THEN Panic(s, "INVALID_PROOF")
        ELSE LET s1  == [s EXCEPT !.nullifiers = @ \cup {nullifier}]
                 s2  == writeBalance(s1, pk_hash, new_balance)
                 tvl == s2.total_value_locked
             IN  IF ~(tvl >= amount) THEN Panic(s, "INSUFFICIENT_POOL_BALANCE")
                 ELSE Ok([s2 EXCEPT !.total_value_locked = tvl - amount])

get_encrypted_balance(s, pk_x, pk_y) ==
    LET pk_hash == hash_pk(pk_x, pk_y)
    IN  [c1_x |-> s.balance_c1_x[pk_hash], c1_y |-> s.balance_c1_y[pk_hash],
         c2_x |-> s.balance_c2_x[pk_hash], c2_y |-> s.balance_c2_y[pk_hash]]

is_registered(s, pk_x, pk_y) == hash_pk(pk_x, pk_y) \in s.registered

is_nullifier_spent(s, nullifier) == nullifier \in s.nullifiers

\* ------------------------------------------------------------------------
\*  useVeilName.ts: names are strings, written here as sequences of
\*  character codes ("abc" = <<97, 98, 99>>).
\* ------------------------------------------------------------------------
RECURSIVE strToFelt252Loop(_, _)
strToFelt252Loop(str, result) ==
    IF str = <<>> THEN result
    ELSE strToFelt252Loop(Tail(str), result * 256 + Head(str))

\* Called on validated names only; the empty string and strings above 31
\* characters throw in the source.
strToFelt252(str) == strToFelt252Loop(str, 0)

\* [a-z0-9-]: codes 97..122, 48..57 and 45.
NameChars == (97..122) \cup (48..57) \cup {45}

validateVeilName(name) ==
    /\ ~(Len(name) < 3 \/ Len(name) > 31)
    /\ \A i \in 1..Len(name) : name[i] \in NameChars
    /\ ~(name[1] = 45 \/ name[Len(name)] = 45)

\* What the user types into the name field: "", "ab", "-ab", "abc", "xyz".
TypedNames == {<<>>, <<97, 98>>, <<45, 97, 98>>, <<97, 98, 99>>, <<120, 121, 122>>}

\* ------------------------------------------------------------------------
\*  VeilNameRegistry (Cairo contract)
\* ------------------------------------------------------------------------
\* Names presented to the registry: 0 (empty) and the felts of typed names.
NameFelts == {0} \cup {strToFelt252(n) : n \in {t \in TypedNames : validateVeilName(t)}}

\* Storage right after the constructor.
RegistryInit ==
    [name_to_pk_x    |-> [n \in NameFelts |-> 0],
     name_to_pk_y    |-> [n \in NameFelts |-> 0],
     address_to_name |-> [a \in Addrs |-> 0],
     name_taken      |-> {}]

\* Mutant: a taken name can be registered again.
register_name_NoTakenCheck(r, poolStorage, caller, name, pk_x, pk_y) ==
    IF name = 0 THEN Panic(r, "INVALID_NAME")
    ELSE IF r.address_to_name[caller] # 0 THEN Panic(r, "ADDRESS_ALREADY_NAMED")
    ELSE IF ~is_registered(poolStorage, pk_x, pk_y) THEN Panic(r, "NOT_REGISTERED_IN_POOL")
    ELSE Ok([r EXCEPT !.name_to_pk_x[name] = pk_x,
                      !.name_to_pk_y[name] = pk_y,
                      !.address_to_name[caller] = name,
                      !.name_taken = @ \cup {name}])

\* poolStorage is the Storage of the ShieldedPool the registry queries.
register_name(r, poolStorage, caller, name, pk_x, pk_y) ==
    IF name = 0 THEN Panic(r, "INVALID_NAME")
    ELSE IF name \in r.name_taken THEN Panic(r, "NAME_TAKEN")
    ELSE IF r.address_to_name[caller] # 0 THEN Panic(r, "ADDRESS_ALREADY_NAMED")
    ELSE IF ~is_registered(poolStorage, pk_x, pk_y) THEN Panic(r, "NOT_REGISTERED_IN_POOL")
    ELSE Ok([r EXCEPT !.name_to_pk_x[name] = pk_x,
                      !.name_to_pk_y[name] = pk_y,
                      !.address_to_name[caller] = name,
                      !.name_taken = @ \cup {name}])

resolve(r, name) == [x |-> r.name_to_pk_x[name], y |-> r.name_to_pk_y[name]]

get_name(r, address) == r.address_to_name[address]

is_name_taken(r, name) == name \in r.name_taken

\* ------------------------------------------------------------------------
\*  Wallet: useShieldedBalance.ts, useNonce.ts
\* ------------------------------------------------------------------------
\* Default maxAmount of decryptBalance (1n << 32n in the source, scaled down
\* with the group order).
DefaultMaxAmount == 16

encryptAmount(amount, publicKeyPoint, r) ==
    LET c1  == (G * r) % CURVE_ORDER
        mG  == IF amount = 0 THEN ZERO ELSE (G * amount) % CURVE_ORDER
        rPK == (publicKeyPoint * r) % CURVE_ORDER
    IN  [c1 |-> c1, c2 |-> pointAdd(mG, rPK)]

decryptBalance(ct, privateKey, maxAmount) ==
    LET skC1 == IF ct.c1 = ZERO THEN ZERO ELSE (ct.c1 * privateKey) % CURVE_ORDER
        mG   == pointAdd(ct.c2, pointNeg(skC1))
    IN  IF mG = ZERO THEN Found(0) ELSE babyStepGiantStep(mG, maxAmount)

serializeCt(ct) ==
    LET c1 == IF ct.c1 = ZERO THEN [x |-> 0, y |-> 0] ELSE toAffine(ct.c1)
        c2 == IF ct.c2 = ZERO THEN [x |-> 0, y |-> 0] ELSE toAffine(ct.c2)
    IN  [c1_x |-> c1.x, c1_y |-> c1.y, c2_x |-> c2.x, c2_y |-> c2.y]

computeDeposit(encryptedBalance, amount, publicKeyPoint, r) ==
    LET encAmount == encryptAmount(amount, publicKeyPoint, r)
        newBal    == [c1 |-> pointAdd(encryptedBalance.c1, encAmount.c1),
                      c2 |-> pointAdd(encryptedBalance.c2, encAmount.c2)]
    IN  [newBalance |-> newBal, serialized |-> serializeCt(newBal)]

\* r is the draw of encryptAmount, r2 the draw for the recipient side.
computeTransfer(encryptedBalance, amount, publicKeyPoint, recipientPkX, recipientPkY, recipientCurrentBal, r, r2) ==
    LET recipientPK  == fromAffine(recipientPkX, recipientPkY)
        senderEnc    == encryptAmount(amount, publicKeyPoint, r)
        newSenderBal == [c1 |-> pointAdd(encryptedBalance.c1, pointNeg(senderEnc.c1)),
                         c2 |-> pointAdd(encryptedBalance.c2, pointNeg(senderEnc.c2))]
        recipientC1  == (G * r2) % CURVE_ORDER
        mG           == (G * amount) % CURVE_ORDER
        rPK          == (recipientPK * r2) % CURVE_ORDER
        recipientC2  == pointAdd(mG, rPK)
        isZeroBal    == /\ recipientCurrentBal.c1_x = 0 /\ recipientCurrentBal.c1_y = 0
                        /\ recipientCurrentBal.c2_x = 0 /\ recipientCurrentBal.c2_y = 0
        existC1      == fromAffine(recipientCurrentBal.c1_x, recipientCurrentBal.c1_y)
        existC2      == fromAffine(recipientCurrentBal.c2_x, recipientCurrentBal.c2_y)
        finalRecipientC1 == IF isZeroBal THEN recipientC1 ELSE pointAdd(existC1, recipientC1)
        finalRecipientC2 == IF isZeroBal THEN recipientC2 ELSE pointAdd(existC2, recipientC2)
    IN  [newSenderBalance    |-> newSenderBal,
         senderSerialized    |-> serializeCt(newSenderBal),
         recipientSerialized |-> serializeCt([c1 |-> finalRecipientC1, c2 |-> finalRecipientC2])]

computeWithdraw(encryptedBalance, amount, publicKeyPoint, r) ==
    LET encAmount == encryptAmount(amount, publicKeyPoint, r)
        newBal    == [c1 |-> pointAdd(encryptedBalance.c1, pointNeg(encAmount.c1)),
                      c2 |-> pointAdd(encryptedBalance.c2, pointNeg(encAmount.c2))]
    IN  [newBalance |-> newBal, serialized |-> serializeCt(newBal)]

\* The two pieces of state syncFromChain / updateLocal install.
updateLocal(newCt, privateKey) ==
    LET dec == decryptBalance(newCt, privateKey, DefaultMaxAmount)
    IN  [encryptedBalance |-> newCt,
         decryptedBalance |-> IF dec.found THEN dec.m ELSE 0]

syncFromChain(c, privateKey) ==
    LET isZeroCt == c.c1_x = 0 /\ c.c1_y = 0 /\ c.c2_x = 0 /\ c.c2_y = 0
        ct == IF isZeroCt THEN [c1 |-> ZERO, c2 |-> ZERO]
              ELSE [c1 |-> fromAffine(c.c1_x, c.c1_y), c2 |-> fromAffine(c.c2_x, c.c2_y)]
    IN  updateLocal(ct, privateKey)

\* nextNullifier given the counter value its closure holds.
nextNullifier(counter, privateKey, domain) ==
    LET newCounter == counter + 1
        domainTag  == IF domain = "transfer" THEN 1 ELSE 2
        inner      == pedersen(privateKey, newCounter)
    IN  [counter |-> newCounter, nullifier |-> pedersen(inner, domainTag)]

nextProofHash(sk, balance, amount, nullifier) ==
    pedersen(pedersen(pedersen(sk, balance), amount), nullifier)

\* ------------------------------------------------------------------------
\*  State
\* ------------------------------------------------------------------------
VARIABLES
    cop,        \* crypto library: name of the last call ("" before any call)
    cin,        \* crypto library: the arguments and random draws of that call
    cout,       \* crypto library: what the call returned (or the error thrown)
    pool,       \* ShieldedPool: the contract's Storage
    last,       \* ShieldedPool: the last external call and how it ended
    accepted,   \* history: successful transfer/withdraw calls per nullifier
    deposited,  \* history: sum of the amounts of successful deposits
    withdrawn,  \* history: sum of the amounts of successful withdraws
    wallet,     \* per user: the wallet page's state and its transaction in flight
    txCount,    \* history: number of transactions the wallets have submitted
    nonceHook,  \* useNonce: React state, localStorage, closures of running handlers
    registry,   \* VeilNameRegistry: the contract's Storage
    regLast,    \* VeilNameRegistry: the last register_name call and how it ended
    nameOwner,  \* history: the address of each NameRegistered event, per name
    nameForm    \* registration screen: input, nameStatus, timer, requests in flight

cryptoVars == <<cop, cin, cout>>

poolVars == <<pool, last, accepted, deposited, withdrawn>>

appVars == <<nonceHook, registry, regLast, nameOwner, nameForm>>

walletVars == <<wallet, txCount>>

vars == <<cop, cin, cout, pool, last, accepted, deposited, withdrawn, wallet, txCount,
          nonceHook, registry, regLast, nameOwner, nameForm>>

CryptoIdle ==
    /\ cop = ""
    /\ cin = [none |-> TRUE]
    /\ cout = [none |-> TRUE]

NoTx == [op |-> "", amount |-> 0, recipient |-> [x |-> 0, y |-> 0],
         ct |-> [c1_x |-> 0, c1_y |-> 0, c2_x |-> 0, c2_y |-> 0],
         recipientCt |-> [c1_x |-> 0, c1_y |-> 0, c2_x |-> 0, c2_y |-> 0],
         proofHash |-> 0, nullifier |-> 0, newBalance |-> zeroCiphertext]

\* useState initial values; the page starts on the registration screen.
WalletsClosed ==
    /\ txCount = 0
    /\ wallet = [a \in Users |->
                [pc |-> "unregistered",
                 encryptedBalance |-> [c1 |-> ZERO, c2 |-> ZERO],
                 decryptedBalance |-> 0,
                 counter |-> 0,
                 tx |-> NoTx]]

NoCall == [op |-> "", caller |-> 0, recipient |-> 0, amount |-> 0, nullifier |-> 0, err |-> ""]

\* regLast: the last register_name call, with the storage it started from.
NoRegistryCall ==
    [caller |-> 0, name |-> 0, pk |-> [x |-> 0, y |-> 0], err |-> "", pre |-> RegistryInit]

RegistryDeployed ==
    /\ registry = RegistryInit
    /\ regLast = NoRegistryCall
    /\ nameOwner = <<>>

\* Handlers of the wallet page that can be running at the same time.
Handlers == 1..2

NoHandler == [running |-> FALSE, held |-> 0, domain |-> ""]

\* useNonce at the first render: useState(0), the localStorage effect has not
\* run yet; stored is the counter a previous session left (0 = no entry).
NonceMounted(stored) ==
    nonceHook = [stored |-> stored, counter |-> 0, loaded |-> FALSE, closure |-> 0,
                 running |-> [h \in Handlers |-> NoHandler], used |-> <<>>]

\* The registration screen before the user typed anything.
NameFormBlank ==
    nameForm = [veilName |-> <<>>, nameStatus |-> "idle", timer |-> <<>>,
                inflight |-> {}, statusFor |-> <<>>, submitted |-> <<>>]

AppClosed == NonceMounted(0) /\ RegistryDeployed /\ NameFormBlank

PoolDeployed ==
    /\ pool = StorageInit
    /\ last = NoCall
    /\ accepted = <<>>
    /\ deposited = 0
    /\ withdrawn = 0

\* ------------------------------------------------------------------------
\*  The crypto library driven as in elgamal.test.ts / e2e.mjs testCrypto:
\*  one action per call pattern, inputs and random draws from bounded sets.
\*  The library is stateless, so every call starts from the idle state.
\* ------------------------------------------------------------------------
\* Bound handed to decrypt where sums of two amounts are read back.
DecBound == 2 * MaxAmount + 1

\* A balance ciphertext a caller may hold, with the plaintext m it encrypts:
\* the canonical zero ciphertext or an encryption of m under the owner's key.
Balances(pk) ==
    {[m |-> 0, ct |-> zeroCiphertext]} \cup
    {[m |-> b, ct |-> encryptWithRandomness(b, pk, r)] : b \in Amounts, r \in Scalars}

\* decrypt(encrypt(a, pk).ct, sk, maxAmount)
CallEncryptDecrypt ==
    /\ cop = ""
    /\ UNCHANGED poolVars
    /\ UNCHANGED <<walletVars, appVars>>
    /\ \E sk \in Scalars, amount \in 0..MaxBound, r \in Scalars, maxAmount \in 0..MaxBound :
        LET enc == encrypt(amount, derivePublicKey(sk), r)
        IN  /\ cop' = "encrypt_decrypt"
            /\ cin' = [sk |-> sk, amount |-> amount, r |-> r, maxAmount |-> maxAmount]
            /\ cout' = [ct |-> enc.ct, dec |-> decrypt(enc.ct, sk, maxAmount)]

\* decrypt(addCiphertexts(encrypt(a, pk).ct, encrypt(b, pk).ct), sk, maxAmount)
CallAddCiphertexts ==
    /\ cop = ""
    /\ UNCHANGED poolVars
    /\ UNCHANGED <<walletVars, appVars>>
    /\ \E sk \in Scalars, a \in Amounts, b \in Amounts, ra \in Scalars, rb \in Scalars,
          maxAmount \in {MaxAmount, DecBound} :
        LET pk  == derivePublicKey(sk)
            sum == addCiphertexts(encrypt(a, pk, ra).ct, encrypt(b, pk, rb).ct)
        IN  /\ cop' = "add"
            /\ cin' = [sk |-> sk, a |-> a, b |-> b, ra |-> ra, rb |-> rb,
                       maxAmount |-> maxAmount]
            /\ cout' = [ct |-> sum, dec |-> decrypt(sum, sk, maxAmount)]

\* decrypt(subtractCiphertexts(encrypt(a, pk).ct, encrypt(b, pk).ct), sk, maxAmount)
CallSubtractCiphertexts ==
    /\ cop = ""
    /\ UNCHANGED poolVars
    /\ UNCHANGED <<walletVars, appVars>>
    /\ \E sk \in Scalars, a \in Amounts, b \in Amounts, ra \in Scalars, rb \in Scalars,
          maxAmount \in {MaxAmount, DecBound} :
        LET pk   == derivePublicKey(sk)
            diff == subtractCiphertexts(encrypt(a, pk, ra).ct, encrypt(b, pk, rb).ct)
        IN  /\ cop' = "subtract"
            /\ cin' = [sk |-> sk, a |-> a, b |-> b, ra |-> ra, rb |-> rb,
                       maxAmount |-> maxAmount]
            /\ cout' = [ct |-> diff, dec |-> decrypt(diff, sk, maxAmount)]

\* computeDepositBalance(currentBalance, amount, pk), then decrypt(newBalance)
CallComputeDepositBalance ==
    /\ cop = ""
    /\ UNCHANGED poolVars
    /\ UNCHANGED <<walletVars, appVars>>
    /\ \E sk \in Scalars, amount \in Amounts, r \in Scalars :
        \E cur \in Balances(derivePublicKey(sk)) :
          LET res == computeDepositBalance(cur.ct, amount, derivePublicKey(sk), r)
          IN  /\ cop' = "computeDepositBalance"
              /\ cin' = [sk |-> sk, currentBalance |-> cur.ct, b |-> cur.m,
                         amount |-> amount, r |-> r, maxAmount |-> DecBound]
              /\ cout' = [res |-> res, dec |-> decrypt(res.newBalance, sk, DecBound)]

\* computeTransferBalances(senderBal, recipientBal, amount, senderPK, recipientPK),
\* then decrypt of both results by their owners
CallComputeTransferBalances ==
    /\ cop = ""
    /\ UNCHANGED poolVars
    /\ UNCHANGED <<walletVars, appVars>>
    /\ \E senderSk \in Scalars, recipientSk \in Scalars, amount \in Amounts,
          rS \in Scalars, rR \in Scalars :
        \E sb \in Balances(derivePublicKey(senderSk)),
           rb \in Balances(derivePublicKey(recipientSk)) :
          LET res == computeTransferBalances(sb.ct, rb.ct, amount,
                        derivePublicKey(senderSk), derivePublicKey(recipientSk), rS, rR)
          IN  /\ cop' = "computeTransferBalances"
              /\ cin' = [senderSk |-> senderSk, recipientSk |-> recipientSk,
                         senderBalance |-> sb.ct, recipientBalance |-> rb.ct,
                         s |-> sb.m, t |-> rb.m, amount |-> amount,
                         rS |-> rS, rR |-> rR, maxAmount |-> DecBound]
              /\ cout' = [res |-> res,
                          decSender    |-> decrypt(res.newSenderBalance, senderSk, DecBound),
                          decRecipient |-> decrypt(res.newRecipientBalance, recipientSk, DecBound)]

\* The ciphertexts, asserted balances, amounts and nullifiers handed to the
\* commitment builder.
ProofCts == {zeroCiphertext, [c1 |-> 1, c2 |-> 3], [c1 |-> ZERO, c2 |-> CURVE_ORDER - 2]}

ProofNullifiers == {0, 1, 99}

ProofBalances == (-2)..MaxAmount

ProofAmounts == (-1)..(MaxAmount + 1)

\* generateTransferProof(sk, balance, amount, nullifier, newSenderCt, newRecipientCt)
CallGenerateTransferProof ==
    /\ cop = ""
    /\ UNCHANGED poolVars
    /\ UNCHANGED <<walletVars, appVars>>
    /\ \E sk \in 1..MaxScalar, balance \in ProofBalances, amount \in ProofAmounts,
          nullifier \in ProofNullifiers, ctS \in ProofCts, ctR \in ProofCts :
        /\ cop' = "generateTransferProof"
        /\ cin' = [sk |-> sk, balance |-> balance, amount |-> amount,
                   nullifier |-> nullifier, newSenderBalance |-> ctS,
                   newRecipientBalance |-> ctR]
        /\ cout' = generateTransferProof(sk, balance, amount, nullifier, ctS, ctR)

\* generateWithdrawProof(sk, balance, amount, nullifier, newCt)
CallGenerateWithdrawProof ==
    /\ cop = ""
    /\ UNCHANGED poolVars
    /\ UNCHANGED <<walletVars, appVars>>
    /\ \E sk \in 1..MaxScalar, balance \in ProofBalances, amount \in ProofAmounts,
          nullifier \in ProofNullifiers, ct \in ProofCts :
        /\ cop' = "generateWithdrawProof"
        /\ cin' = [sk |-> sk, balance |-> balance, amount |-> amount,
                   nullifier |-> nullifier, newBalance |-> ct]
        /\ cout' = generateWithdrawProof(sk, balance, amount, nullifier, ct)

InitCrypto == CryptoIdle /\ PoolDeployed /\ WalletsClosed /\ AppClosed

NextCrypto ==
    \/ CallEncryptDecrypt
    \/ CallAddCiphertexts
    \/ CallSubtractCiphertexts
    \/ CallComputeDepositBalance
    \/ CallComputeTransferBalances
    \/ CallGenerateTransferProof
    \/ CallGenerateWithdrawProof

SpecCrypto == InitCrypto /\ [][NextCrypto]_vars

\* ------------------------------------------------------------------------
\*  The crypto library at the edges of its domain: calls in pairs, wrong
\*  keys, negative amounts, scalars outside [1, n-1], raw random draws.
\* ------------------------------------------------------------------------
\* Two generateTransferProof calls that differ only in the new sender
\* ciphertext.
CallTransferProofPair ==
    /\ cop = ""
    /\ UNCHANGED poolVars
    /\ UNCHANGED <<walletVars, appVars>>
    /\ \E sk \in 1..MaxScalar, balance \in ProofBalances, amount \in ProofAmounts,
          nullifier \in ProofNullifiers, ctA \in ProofCts, ctB \in ProofCts,
          ctR \in ProofCts :
        /\ cop' = "generateTransferProof_pair"
        /\ cin' = [sk |-> sk, balance |-> balance, amount |-> amount,
                   nullifier |-> nullifier, newA |-> ctA, newB |-> ctB,
                   newRecipientBalance |-> ctR]
        /\ cout' = [first  |-> generateTransferProof(sk, balance, amount, nullifier, ctA, ctR),
                    second |-> generateTransferProof(sk, balance, amount, nullifier, ctB, ctR)]

\* Two generateWithdrawProof calls that differ only in the new ciphertext.
CallWithdrawProofPair ==
    /\ cop = ""
    /\ UNCHANGED poolVars
    /\ UNCHANGED <<walletVars, appVars>>
    /\ \E sk \in 1..MaxScalar, balance \in ProofBalances, amount \in ProofAmounts,
          nullifier \in ProofNullifiers, ctA \in ProofCts, ctB \in ProofCts :
        /\ cop' = "generateWithdrawProof_pair"
        /\ cin' = [sk |-> sk, balance |-> balance, amount |-> amount,
                   nullifier |-> nullifier, newA |-> ctA, newB |-> ctB]
        /\ cout' = [first  |-> generateWithdrawProof(sk, balance, amount, nullifier, ctA),
                    second |-> generateWithdrawProof(sk, balance, amount, nullifier, ctB)]

\* The maxAmount arguments handed to decrypt: -1 is below the domain of sqrt.
DecryptBounds == (-1)..MaxBound

\* decrypt(encrypt(amount, pkA).ct, skB, maxAmount), skB the owner's key or
\* another one.
CallDecrypt ==
    /\ cop = ""
    /\ UNCHANGED poolVars
    /\ UNCHANGED <<walletVars, appVars>>
    /\ \E skA \in Scalars, skB \in Scalars, amount \in Amounts, r \in Scalars,
          maxAmount \in DecryptBounds :
        LET enc == encrypt(amount, derivePublicKey(skA), r)
        IN  /\ cop' = "decrypt"
            /\ cin' = [skA |-> skA, skB |-> skB, amount |-> amount, r |-> r,
                       maxAmount |-> maxAmount]
            /\ cout' = [ct |-> enc.ct, dec |-> decrypt(enc.ct, skB, maxAmount)]

EncryptAmounts == (-2)..MaxAmount

\* encrypt(amount, pk)
CallEncrypt ==
    /\ cop = ""
    /\ UNCHANGED poolVars
    /\ UNCHANGED <<walletVars, appVars>>
    /\ \E sk \in Scalars, amount \in EncryptAmounts, r \in Scalars :
        /\ cop' = "encrypt"
        /\ cin' = [sk |-> sk, publicKey |-> derivePublicKey(sk), amount |-> amount, r |-> r]
        /\ cout' = encrypt(amount, derivePublicKey(sk), r)

TransferAmounts == (-1)..(MaxAmount + 1)

\* computeTransferBalances(senderBal, zeroCiphertext, amount, senderPK, recipientPK)
\* for any amount, whatever the sender's balance s is.
CallComputeTransferAnyAmount ==
    /\ cop = ""
    /\ UNCHANGED poolVars
    /\ UNCHANGED <<walletVars, appVars>>
    /\ \E senderSk \in Scalars, recipientSk \in Scalars, amount \in TransferAmounts,
          rS \in Scalars, rR \in Scalars :
        \E sb \in Balances(derivePublicKey(senderSk)) :
          /\ cop' = "computeTransferBalances_anyAmount"
          /\ cin' = [senderSk |-> senderSk, recipientSk |-> recipientSk,
                     senderBalance |-> sb.ct, recipientBalance |-> zeroCiphertext,
                     s |-> sb.m, amount |-> amount, rS |-> rS, rR |-> rR]
          /\ cout' = computeTransferBalances(sb.ct, zeroCiphertext, amount,
                         derivePublicKey(senderSk), derivePublicKey(recipientSk), rS, rR)

\* Scalars a caller may hand in: inside [1, n-1], zero, negative, above n.
SuppliedScalars == {0, 1, CURVE_ORDER - 1, CURVE_ORDER + 1, -1}

\* derivePublicKey(privateKey): returns the point, there is no throw statement
\* on its path.
CallDerivePublicKey ==
    /\ cop = ""
    /\ UNCHANGED poolVars
    /\ UNCHANGED <<walletVars, appVars>>
    /\ \E scalar \in SuppliedScalars :
        /\ cop' = "derivePublicKey"
        /\ cin' = [scalar |-> scalar]
        /\ cout' = [err |-> "", value |-> derivePublicKey(scalar)]

\* encryptWithRandomness(amount, pk, r) with a supplied r.
CallEncryptWithRandomness ==
    /\ cop = ""
    /\ UNCHANGED poolVars
    /\ UNCHANGED <<walletVars, appVars>>
    /\ \E sk \in Scalars, amount \in Amounts, scalar \in SuppliedScalars :
        /\ cop' = "encryptWithRandomness"
        /\ cin' = [sk |-> sk, amount |-> amount, scalar |-> scalar]
        /\ cout' = [err |-> "",
                    value |-> encryptWithRandomness(amount, derivePublicKey(sk), scalar)]

\* decrypt(ct, sk, maxAmount) with a supplied sk.
CallDecryptSuppliedKey ==
    /\ cop = ""
    /\ UNCHANGED poolVars
    /\ UNCHANGED <<walletVars, appVars>>
    /\ \E skA \in Scalars, amount \in Amounts, r \in Scalars, scalar \in SuppliedScalars :
        LET ct == encryptWithRandomness(amount, derivePublicKey(skA), r)
        IN  /\ cop' = "decrypt_suppliedKey"
            /\ cin' = [skA |-> skA, amount |-> amount, r |-> r, scalar |-> scalar,
                       maxAmount |-> DecBound]
            /\ cout' = [err |-> "", value |-> decrypt(ct, scalar, DecBound)]

\* Integers the 32 random bytes can spell: 0, multiples of n, values that
\* reduce to 1 and to n-1.
RawDraws == {0, 1, CURVE_ORDER - 1, CURVE_ORDER, CURVE_ORDER + 1, 2 * CURVE_ORDER}

\* generateKeyPair(), then encrypt(amount, kp.publicKey): raw and rawR are
\* what the two randomScalar() calls read.
CallGenerateKeyPair ==
    /\ cop = ""
    /\ UNCHANGED poolVars
    /\ UNCHANGED <<walletVars, appVars>>
    /\ \E raw \in RawDraws, rawR \in RawDraws, amount \in Amounts :
        LET kp == generateKeyPair(raw)
        IN  /\ cop' = "generateKeyPair"
            /\ cin' = [raw |-> raw, rawR |-> rawR, amount |-> amount]
            /\ cout' = [kp |-> kp, enc |-> encrypt(amount, kp.publicKey, randomScalar(rawR))]

Nonces == 0..MaxBound

\* generateNullifier(sk, nonce) twice, then generateNullifier(sk, other).
CallGenerateNullifier ==
    /\ cop = ""
    /\ UNCHANGED poolVars
    /\ UNCHANGED <<walletVars, appVars>>
    /\ \E sk \in 1..MaxScalar, nonce \in Nonces, other \in Nonces :
        /\ cop' = "generateNullifier"
        /\ cin' = [sk |-> sk, nonce |-> nonce, other |-> other]
        /\ cout' = [first |-> generateNullifier(sk, nonce),
                    again |-> generateNullifier(sk, nonce),
                    other |-> generateNullifier(sk, other)]

\* generateDomainNullifier(sk, nonce, "transfer") and (sk, nonce, "withdraw").
CallGenerateDomainNullifier ==
    /\ cop = ""
    /\ UNCHANGED poolVars
    /\ UNCHANGED <<walletVars, appVars>>
    /\ \E sk \in 1..MaxScalar, nonce \in Nonces :
        /\ cop' = "generateDomainNullifier"
        /\ cin' = [sk |-> sk, nonce |-> nonce]
        /\ cout' = [transfer |-> generateDomainNullifier(sk, nonce, "transfer"),
                    withdraw |-> generateDomainNullifier(sk, nonce, "withdraw")]

\* Points a ciphertext component is drawn from, the identity included.
WirePoints == {ZERO, G, 2, 3, CURVE_ORDER - 2, CURVE_ORDER - 1}

\* serializeCiphertext(ct) / serCt(ct), and the ciphertext the clients rebuild
\* from the wire tuple (syncFromChain, ctFromSer).
CallSerializeCiphertext ==
    /\ cop = ""
    /\ UNCHANGED poolVars
    /\ UNCHANGED <<walletVars, appVars>>
    /\ \E c1 \in WirePoints, c2 \in WirePoints, sk \in 1..MaxScalar :
        LET ct == [c1 |-> c1, c2 |-> c2]
        IN  /\ cop' = "serializeCiphertext"
            /\ cin' = [ct |-> ct, sk |-> sk]
            /\ cout' = [ser      |-> serializeCiphertext(ct),
                        wire     |-> serCt(ct),
                        synced   |-> syncFromChain(serializeCiphertext(ct), sk).encryptedBalance,
                        rebuilt  |-> ctFromSer(serCt(ct))]

NextEdge ==
    \/ CallSerializeCiphertext
    \/ CallGenerateDomainNullifier
    \/ CallGenerateNullifier
    \/ CallGenerateKeyPair
    \/ CallTransferProofPair
    \/ CallWithdrawProofPair
    \/ CallDecrypt
    \/ CallEncrypt
    \/ CallComputeTransferAnyAmount
    \/ CallDerivePublicKey
    \/ CallEncryptWithRandomness
    \/ CallDecryptSuppliedKey

SpecEdge == InitCrypto /\ [][NextEdge]_vars

\* ------------------------------------------------------------------------
\*  The ShieldedPool contract called by arbitrary accounts with arbitrary
\*  calldata (it checks none of it beyond the asserts above).
\* ------------------------------------------------------------------------
SerZero == serializeCiphertext(zeroCiphertext)

\* Serialized ciphertexts submitted as calldata.
CallCts == {SerZero, serializeCiphertext(encryptWithRandomness(1, derivePublicKey(UserSk(1)), 1))}

CallNullifiers == {11, 12}

CallProofHashes == {0, 7}

CallAmounts == 0..MaxDeposited

Count(n) == IF n \in DOMAIN accepted THEN accepted[n] ELSE 0

\* The transaction ends: storage becomes res.s (the pre-state after a panic)
\* and the histories record a successful call.
Finish(op, caller, recipient, amount, nullifier, res) ==
    /\ pool' = res.s
    /\ last' = [op |-> op, caller |-> caller, recipient |-> recipient, amount |-> amount,
                nullifier |-> nullifier, err |-> res.err]
    /\ accepted' =
          IF res.err = "" /\ op \in {"transfer", "withdraw"}
          THEN [n \in DOMAIN accepted \cup {nullifier} |->
                    IF n = nullifier THEN Count(n) + 1 ELSE Count(n)]
          ELSE accepted
    /\ deposited' = IF res.err = "" /\ op = "deposit" THEN deposited + amount ELSE deposited
    /\ withdrawn' = IF res.err = "" /\ op = "withdraw" THEN withdrawn + amount ELSE withdrawn

Register ==
    \E caller \in Addrs, pk \in PoolPks :
        /\ Finish("register", caller, 0, 0, 0, register(pool, caller, pk.x, pk.y))
        /\ UNCHANGED <<appVars, cryptoVars, walletVars>>

Deposit ==
    \E caller \in Addrs, amount \in CallAmounts, ct \in CallCts :
        /\ deposited + amount <= MaxDeposited
        /\ Finish("deposit", caller, 0, amount, 0, deposit(pool, caller, amount, ct))
        /\ UNCHANGED <<appVars, cryptoVars, walletVars>>

Transfer ==
    \E caller \in Addrs, pk \in PoolPks, ctS \in CallCts, ctR \in CallCts,
       proof_hash \in CallProofHashes, nullifier \in CallNullifiers :
        /\ Finish("transfer", caller, hash_pk(pk.x, pk.y), 0, nullifier,
                  transfer(pool, caller, pk.x, pk.y, ctS, ctR, proof_hash, nullifier))
        /\ UNCHANGED <<appVars, cryptoVars, walletVars>>

Withdraw ==
    \E caller \in Addrs, amount \in CallAmounts, ct \in CallCts,
       proof_hash \in CallProofHashes, nullifier \in CallNullifiers :
        /\ Finish("withdraw", caller, 0, amount, nullifier,
                  withdraw(pool, caller, amount, ct, proof_hash, nullifier))
        /\ UNCHANGED <<appVars, cryptoVars, walletVars>>

Init == CryptoIdle /\ PoolDeployed /\ WalletsClosed /\ AppClosed

Next ==
    \/ Register
    \/ Deposit
    \/ Transfer
    \/ Withdraw

Spec == Init /\ [][Next]_vars

\* ------------------------------------------------------------------------
\*  Honest wallets (page.tsx handlers) in front of the pool.  A handler
\*  computes its calldata from the wallet's local snapshot, submits the
\*  transaction, and the transaction lands later, in any order with the
\*  other wallet's.
\* ------------------------------------------------------------------------
WalletRand == 1..MaxScalar

\* parseEther("1"): one whole token in wei, scaled down with the group order
\* but still above DefaultMaxAmount, as 10^18 is above 2^32.
OneToken == 30

\* Amounts typed into the wallet, in wei.
WalletAmounts == (1..MaxDeposited) \cup {OneToken}

PkPoint(a) == derivePublicKey(UserSk(a))

\* handleRegister: the register transaction, then refreshBalance.
WalletRegister(a) ==
    /\ wallet[a].pc = "unregistered"
    /\ LET res == register(pool, a, UserPk(a).x, UserPk(a).y)
       IN  /\ Finish("register", a, 0, 0, 0, res)
           /\ wallet' = [wallet EXCEPT ![a].pc = IF res.err = "" THEN "refresh" ELSE "unregistered"]
    /\ UNCHANGED <<appVars, cryptoVars, txCount>>

\* handleDeposit up to the submission of the transaction.
WalletDeposit(a) ==
    /\ wallet[a].pc = "idle"
    /\ txCount < MaxTx
    /\ \E wei \in WalletAmounts, r \in WalletRand :
        LET c == computeDeposit(wallet[a].encryptedBalance, wei, PkPoint(a), r)
        IN  /\ wallet' = [wallet EXCEPT
                  ![a].pc = "submitted",
                  ![a].tx = [NoTx EXCEPT !.op = "deposit", !.amount = wei,
                                         !.ct = c.serialized,
                                         !.newBalance = c.newBalance]]
    /\ txCount' = txCount + 1
    /\ UNCHANGED <<appVars, cryptoVars, poolVars>>

\* handleWithdraw up to the submission of the transaction.
WalletWithdraw(a) ==
    /\ wallet[a].pc = "idle"
    /\ txCount < MaxTx
    /\ \E wei \in WalletAmounts, r \in WalletRand :
        LET n == nextNullifier(wallet[a].counter, UserSk(a), "withdraw")
            proofHash == nextProofHash(UserSk(a), wallet[a].decryptedBalance, wei, n.nullifier)
            c == computeWithdraw(wallet[a].encryptedBalance, wei, PkPoint(a), r)
        IN  /\ ~(wei > wallet[a].decryptedBalance)
            /\ wallet' = [wallet EXCEPT
                  ![a].pc = "submitted",
                  ![a].counter = n.counter,
                  ![a].tx = [NoTx EXCEPT !.op = "withdraw", !.amount = wei,
                                         !.ct = c.serialized,
                                         !.proofHash = proofHash,
                                         !.nullifier = n.nullifier,
                                         !.newBalance = c.newBalance]]
    /\ txCount' = txCount + 1
    /\ UNCHANGED <<appVars, cryptoVars, poolVars>>

\* handleTransfer up to the submission of the transaction: the recipient's
\* balance is the one fetchBalance returns now.
WalletTransfer(a) ==
    /\ wallet[a].pc = "idle"
    /\ txCount < MaxTx
    /\ \E wei \in WalletAmounts, to \in Users, r \in WalletRand, r2 \in WalletRand :
        LET rpk == UserPk(to)
            recipientBal == get_encrypted_balance(pool, rpk.x, rpk.y)
            n == nextNullifier(wallet[a].counter, UserSk(a), "transfer")
            proofHash == nextProofHash(UserSk(a), wallet[a].decryptedBalance, wei, n.nullifier)
            c == computeTransfer(wallet[a].encryptedBalance, wei, PkPoint(a),
                                 rpk.x, rpk.y, recipientBal, r, r2)
        IN  /\ ~(wei > wallet[a].decryptedBalance)
            /\ is_registered(pool, rpk.x, rpk.y)
            /\ wallet' = [wallet EXCEPT
                  ![a].pc = "submitted",
                  ![a].counter = n.counter,
                  ![a].tx = [NoTx EXCEPT !.op = "transfer", !.amount = wei,
                                         !.recipient = rpk,
                                         !.ct = c.senderSerialized,
                                         !.recipientCt = c.recipientSerialized,
                                         !.proofHash = proofHash,
                                         !.nullifier = n.nullifier,
                                         !.newBalance = c.newSenderBalance]]
    /\ txCount' = txCount + 1
    /\ UNCHANGED <<appVars, cryptoVars, poolVars>>

\* The submitted transaction executes; on success the handler goes on with
\* updateLocal(newBalance), on a revert it throws.
WalletLand(a) ==
    /\ wallet[a].pc = "submitted"
    /\ LET tx  == wallet[a].tx
           res == CASE tx.op = "deposit"  -> deposit(pool, a, tx.amount, tx.ct)
                    [] tx.op = "withdraw" -> withdraw(pool, a, tx.amount, tx.ct,
                                                      tx.proofHash, tx.nullifier)
                    [] tx.op = "transfer" -> transfer(pool, a, tx.recipient.x, tx.recipient.y,
                                                      tx.ct, tx.recipientCt,
                                                      tx.proofHash, tx.nullifier)
           local == updateLocal(tx.newBalance, UserSk(a))
       IN  /\ Finish(tx.op, a,
                     IF tx.op = "transfer" THEN hash_pk(tx.recipient.x, tx.recipient.y) ELSE 0,
                     IF tx.op = "transfer" THEN 0 ELSE tx.amount, tx.nullifier, res)
           /\ wallet' = IF res.err = ""
                        THEN [wallet EXCEPT ![a].pc = "refresh", ![a].tx = NoTx,
                                            ![a].encryptedBalance = local.encryptedBalance,
                                            ![a].decryptedBalance = local.decryptedBalance]
                        ELSE [wallet EXCEPT ![a].pc = "idle", ![a].tx = NoTx]
    /\ UNCHANGED <<appVars, cryptoVars, txCount>>

\* refreshBalance: fetchBalance of the own key, then syncFromChain.
WalletRefresh(a) ==
    /\ wallet[a].pc = "refresh"
    /\ LET local == syncFromChain(get_encrypted_balance(pool, UserPk(a).x, UserPk(a).y), UserSk(a))
       IN  wallet' = [wallet EXCEPT ![a].pc = "idle",
                                    ![a].encryptedBalance = local.encryptedBalance,
                                    ![a].decryptedBalance = local.decryptedBalance]
    /\ UNCHANGED <<appVars, cryptoVars, poolVars, txCount>>

InitWallet == CryptoIdle /\ PoolDeployed /\ WalletsClosed /\ AppClosed

NextWallet ==
    \/ \E a \in Users : WalletRegister(a)
    \/ \E a \in Users : WalletDeposit(a)
    \/ \E a \in Users : WalletWithdraw(a)
    \/ \E a \in Users : WalletTransfer(a)
    \/ \E a \in Users : WalletLand(a)
    \/ \E a \in Users : WalletRefresh(a)

SpecWallet == InitWallet /\ [][NextWallet]_vars

\* ------------------------------------------------------------------------
\*  VeilNameRegistry deployed next to the pool: any address may call the
\*  pool's register and the registry's register_name.
\* ------------------------------------------------------------------------
RegisterName ==
    /\ UNCHANGED <<cryptoVars, poolVars, walletVars, nonceHook, nameForm>>
    /\ \E caller \in Addrs, name \in NameFelts, pk \in PoolPks :
        LET res == register_name(registry, pool, caller, name, pk.x, pk.y)
        IN  /\ registry' = res.s
            /\ regLast' = [caller |-> caller, name |-> name, pk |-> pk,
                           err |-> res.err, pre |-> registry]
            /\ nameOwner' = IF res.err = ""
                              THEN Append(nameOwner, [caller |-> caller, name |-> name, pk |-> pk])
                              ELSE nameOwner

NextRegistry ==
    \/ Register
    \/ RegisterName

SpecRegistry == Init /\ [][NextRegistry]_vars

\* ------------------------------------------------------------------------
\*  The registration screen: the veilName input, the debounced availability
\*  effect and handleRegister, next to a registry another user writes to.
\*  nameForm.timer is the name the pending setTimeout callback captured
\*  (<<>> = no pending timer), nameForm.inflight the names whose
\*  checkNameAvailable call has not returned yet, nameForm.statusFor the name
\*  the last setNameStatus call was made for, nameForm.submitted the name
\*  handleRegister passed to registerWithName.
\* ------------------------------------------------------------------------
\* The other user of the registry.
Peer == 2

PeerName == strToFelt252(<<120, 121, 122>>)

PeerRegister ==
    /\ Finish("register", Peer, 0, 0, 0, register(pool, Peer, UserPk(Peer).x, UserPk(Peer).y))
    /\ UNCHANGED <<appVars, cryptoVars, walletVars>>

PeerRegisterName ==
    /\ UNCHANGED <<cryptoVars, poolVars, walletVars, nonceHook, nameForm>>
    /\ LET pk  == UserPk(Peer)
           res == register_name(registry, pool, Peer, PeerName, pk.x, pk.y)
       IN  /\ registry' = res.s
           /\ regLast' = [caller |-> Peer, name |-> PeerName, pk |-> pk,
                          err |-> res.err, pre |-> registry]
           /\ nameOwner' = IF res.err = ""
                             THEN Append(nameOwner, [caller |-> Peer, name |-> PeerName, pk |-> pk])
                             ELSE nameOwner

\* The user edits the input: setVeilName, then the effect's cleanup and body.
TypeName(n) ==
    /\ nameForm.submitted = <<>>
    /\ n # nameForm.veilName
    /\ nameForm' = [nameForm EXCEPT
          !.veilName   = n,
          !.nameStatus = IF n = <<>> THEN "idle"
                         ELSE IF ~validateVeilName(n) THEN "invalid"
                         ELSE "checking",
          !.statusFor  = n,
          !.timer      = IF n # <<>> /\ validateVeilName(n) THEN n ELSE <<>>]
    /\ UNCHANGED <<cryptoVars, poolVars, walletVars, nonceHook, registry, regLast, nameOwner>>

\* 500 ms passed without clearTimeout: the callback calls checkNameAvailable
\* with the name it captured.
NameTimerFires ==
    /\ nameForm.submitted = <<>>
    /\ nameForm.timer # <<>>
    /\ nameForm' = [nameForm EXCEPT !.timer = <<>>,
                                    !.inflight = @ \cup {nameForm.timer}]
    /\ UNCHANGED <<cryptoVars, poolVars, walletVars, nonceHook, registry, regLast, nameOwner>>

\* checkNameAvailable(n) returns and the callback calls setNameStatus.
NameCheckResponds(n) ==
    /\ nameForm.submitted = <<>>
    /\ n \in nameForm.inflight
    /\ LET available == ~is_name_taken(registry, strToFelt252(n))
       IN  nameForm' = [nameForm EXCEPT
              !.inflight   = @ \ {n},
              !.nameStatus = IF available THEN "available" ELSE "taken",
              !.statusFor  = n]
    /\ UNCHANGED <<cryptoVars, poolVars, walletVars, nonceHook, registry, regLast, nameOwner>>

\* checkNameAvailable(n) throws (RPC failure): the catch branch.
NameCheckFails(n) ==
    /\ nameForm.submitted = <<>>
    /\ n \in nameForm.inflight
    /\ nameForm' = [nameForm EXCEPT !.inflight = @ \ {n},
                                    !.nameStatus = "idle",
                                    !.statusFor = n]
    /\ UNCHANGED <<cryptoVars, poolVars, walletVars, nonceHook, registry, regLast, nameOwner>>

\* handleRegister up to the call of registerWithName(pk.x, pk.y, veilName).
HandleRegister ==
    /\ nameForm.submitted = <<>>
    /\ nameForm.nameStatus = "available"
    /\ nameForm' = [nameForm EXCEPT !.submitted = nameForm.veilName]
    /\ UNCHANGED <<cryptoVars, poolVars, walletVars, nonceHook, registry, regLast, nameOwner>>

NextName ==
    \/ PeerRegister
    \/ PeerRegisterName
    \/ \E n \in TypedNames : TypeName(n)
    \/ NameTimerFires
    \/ \E n \in TypedNames : NameCheckResponds(n)
    \/ \E n \in TypedNames : NameCheckFails(n)
    \/ HandleRegister

SpecName == Init /\ [][NextName]_vars

\* ------------------------------------------------------------------------
\*  useNonce inside the wallet page: the counter lives in React state, every
\*  render builds a nextNullifier closure over the value it saw, and a handler
\*  keeps the closure of the render in which it was started.
\* ------------------------------------------------------------------------
\* Counters a previous session may have left in localStorage (0 = no entry).
StoredCounters == 0..1

Domains == {"transfer", "withdraw"}

\* The effect of useNonce: read localStorage, setCounter when there is an entry.
NonceLoadStored ==
    /\ ~nonceHook.loaded
    /\ nonceHook' = [nonceHook EXCEPT
          !.loaded = TRUE,
          !.counter = IF nonceHook.stored # 0 THEN nonceHook.stored ELSE @]
    /\ UNCHANGED <<cryptoVars, poolVars, walletVars, registry, regLast, nameOwner, nameForm>>

\* React renders again after setCounter: nextNullifier is rebuilt over counter.
NonceRender ==
    /\ nonceHook.closure # nonceHook.counter
    /\ nonceHook' = [nonceHook EXCEPT !.closure = nonceHook.counter]
    /\ UNCHANGED <<cryptoVars, poolVars, walletVars, registry, regLast, nameOwner, nameForm>>

\* handleTransfer / handleWithdraw is invoked from the current render and
\* goes on to its awaits (checkRegistered, fetchBalance) before it needs a
\* nullifier.
HandlerStart(h) ==
    /\ nonceHook.loaded
    /\ nonceHook.closure = nonceHook.counter
    /\ ~nonceHook.running[h].running
    /\ \E domain \in Domains :
        nonceHook' = [nonceHook EXCEPT
            !.running[h] = [running |-> TRUE, held |-> nonceHook.closure, domain |-> domain]]
    /\ UNCHANGED <<cryptoVars, poolVars, walletVars, registry, regLast, nameOwner, nameForm>>

\* The running handler calls the nextNullifier it holds.
HandlerNextNullifier(h) ==
    /\ nonceHook.running[h].running
    /\ Len(nonceHook.used) < MaxCalls
    /\ LET n == nextNullifier(nonceHook.running[h].held, UserSk(1), nonceHook.running[h].domain)
       IN  nonceHook' = [nonceHook EXCEPT
              !.counter = n.counter,
              !.stored = n.counter,
              !.running[h] = NoHandler,
              !.used = Append(@, [counter |-> n.counter,
                                  domain |-> nonceHook.running[h].domain,
                                  nullifier |-> n.nullifier])]
    /\ UNCHANGED <<cryptoVars, poolVars, walletVars, registry, regLast, nameOwner, nameForm>>

InitNonce ==
    /\ CryptoIdle /\ PoolDeployed /\ WalletsClosed /\ RegistryDeployed /\ NameFormBlank
    /\ \E stored \in StoredCounters : NonceMounted(stored)

NextNonce ==
    \/ NonceLoadStored
    \/ NonceRender
    \/ \E h \in Handlers : HandlerStart(h)
    \/ \E h \in Handlers : HandlerNextNullifier(h)

SpecNonce == InitNonce /\ [][NextNonce]_vars

\* ------------------------------------------------------------------------
\*  Properties of the ShieldedPool (checked under Spec)
\* ------------------------------------------------------------------------
\* The asserts that precede the nullifier assert pass for call c in storage s.
ReachesNullifierCheck(s, c) ==
    /\ s.address_to_pk_hash[c.caller] # 0
    /\ c.op = "transfer" => c.recipient \in s.registered
    /\ c.op = "withdraw" => c.amount > 0

NullifierAcceptedOnce == \A n \in DOMAIN accepted : accepted[n] <= 1

SpentNullifierRejected ==
    (last'.op \in {"transfer", "withdraw"} /\ last'.nullifier \in pool.nullifiers)
        => /\ last'.err # ""
           /\ ReachesNullifierCheck(pool, last') => last'.err = "NULLIFIER_SPENT"
           /\ pool' = pool
           /\ accepted' = accepted

\* A call presenting a spent nullifier fails with NULLIFIER_SPENT, whatever
\* else is wrong with the call.
SpentNullifierFailsAsSpent ==
    (last'.op \in {"transfer", "withdraw"} /\ last'.nullifier \in pool.nullifiers)
        => /\ last'.err = "NULLIFIER_SPENT"
           /\ pool' = pool
           /\ accepted' = accepted

\* C2 as stated: each nullifier is accepted by at most one successful
\* transfer or withdraw, and every call presenting a spent nullifier fails
\* with NULLIFIER_SPENT and changes nothing.  The contract asserts the
\* caller's registration (and the recipient's registration, or the non-zero
\* amount) before the nullifier, so such a call can fail with another error.
C2_SpentAlwaysNullifierSpent == []NullifierAcceptedOnce /\ [][SpentNullifierFailsAsSpent]_vars

\* C2 (amended): across transfer and withdraw calls each nullifier is accepted
\* by at most one successful call; a call presenting a spent nullifier fails,
\* with NULLIFIER_SPENT once the caller/recipient/amount asserts that precede
\* the nullifier assert have passed, and leaves the balances, the nullifier
\* set and total_value_locked as they were.
C2_NullifierOnce == []NullifierAcceptedOnce /\ [][SpentNullifierRejected]_vars

C2_Witness ==
    /\ last.op = "withdraw"
    /\ last.err = "NULLIFIER_SPENT"
    /\ Count(last.nullifier) = 1
    /\ pool.total_value_locked > 0

\* ------------------------------------------------------------------------
\*  Properties of the wallets and the pool together (checked under SpecWallet)
\* ------------------------------------------------------------------------
\* The plaintext of the balance stored for user a, read with a's key.
StoredPlain(a) ==
    decryptBalance(
        syncFromChain(get_encrypted_balance(pool, UserPk(a).x, UserPk(a).y), UserSk(a)).encryptedBalance,
        UserSk(a), DefaultMaxAmount)

StoredValue(a) ==
    IF is_registered(pool, UserPk(a).x, UserPk(a).y) THEN StoredPlain(a).m ELSE 0

\* C3: under any interleaving of honest wallets, the plaintexts of the stored
\* balances add up to total_value_locked = deposits - withdrawals.
C3_ValueConserved ==
    /\ pool.total_value_locked = deposited - withdrawn
    /\ \A a \in Users : StoredPlain(a).found
    /\ StoredValue(1) + StoredValue(2) = pool.total_value_locked

\* ------------------------------------------------------------------------
\*  Properties of the crypto library (checked under SpecCrypto)
\* ------------------------------------------------------------------------

\* C1: for every keypair, every bound maxAmount and every amount a with
\* 0 <= a <= maxAmount, decrypt(encrypt(a, pk).ct, sk, maxAmount) returns
\* exactly a, whatever randomness encrypt drew.
C1_EncryptDecryptRoundTrip ==
    (cop = "encrypt_decrypt" /\ cin.amount <= cin.maxAmount)
        => cout.dec = Found(cin.amount)

C1_Witness ==
    /\ cop = "encrypt_decrypt"
    /\ cin.amount = MaxBound
    /\ cin.maxAmount = MaxBound
    /\ cin.r = CURVE_ORDER - 1
    /\ cout.dec = Found(MaxBound)

\* C4: with 0 <= amount <= s, computeTransferBalances returns a sender
\* balance that decrypts (sender key) to s - amount and a recipient balance
\* that decrypts (recipient key) to t + amount, so s + t is preserved.
C4_TransferBalances ==
    (cop = "computeTransferBalances" /\ cin.amount <= cin.s)
        => /\ cout.res.err = ""
           /\ cout.decSender = Found(cin.s - cin.amount)
           /\ cout.decRecipient = Found(cin.t + cin.amount)
           /\ cout.decSender.m + cout.decRecipient.m = cin.s + cin.t

C4_Witness ==
    /\ cop = "computeTransferBalances"
    /\ cin.senderSk # cin.recipientSk
    /\ cin.recipientBalance = zeroCiphertext
    /\ cin.s = MaxAmount
    /\ cin.amount = 1
    /\ cout.decSender = Found(MaxAmount - 1)
    /\ cout.decRecipient = Found(1)

\* C5: two ciphertexts encrypting a and b under the same key, each with its
\* own randomness, add up to a ciphertext that decrypts to a + b whenever
\* a + b <= maxAmount.
C5_AddHomomorphic ==
    (cop = "add" /\ cin.a + cin.b <= cin.maxAmount)
        => cout.dec = Found(cin.a + cin.b)

C5_Witness ==
    /\ cop = "add"
    /\ cin.a = MaxAmount
    /\ cin.b = MaxAmount
    /\ cin.ra # cin.rb
    /\ cout.dec = Found(2 * MaxAmount)

\* C6: two ciphertexts encrypting a >= b under the same key subtract to a
\* ciphertext that decrypts to a - b (0 when a = b, even with different
\* randomness).
C6_SubtractHomomorphic ==
    (cop = "subtract" /\ cin.a >= cin.b)
        => cout.dec = Found(cin.a - cin.b)

C6_Witness ==
    /\ cop = "subtract"
    /\ cin.a = cin.b
    /\ cin.a > 0
    /\ cin.ra # cin.rb
    /\ cout.ct # zeroCiphertext
    /\ cout.dec = Found(0)

\* C7: computeDepositBalance on a balance encrypting b (including the
\* canonical zero ciphertext) and an amount a >= 0 returns a newBalance that
\* decrypts to b + a, and serialized is serializeCiphertext(newBalance).
C7_DepositBalance ==
    cop = "computeDepositBalance"
        => /\ cout.res.err = ""
           /\ cout.dec = Found(cin.b + cin.amount)
           /\ cout.res.serialized = serializeCiphertext(cout.res.newBalance)

C7_Witness ==
    /\ cop = "computeDepositBalance"
    /\ cin.currentBalance # zeroCiphertext
    /\ cin.b > 0
    /\ cin.amount > 0
    /\ cout.dec = Found(cin.b + cin.amount)

IsProofCall == cop \in {"generateTransferProof", "generateWithdrawProof"}

\* C8: both proof generators fail with InsufficientBalance whenever
\* amount > 0 and the asserted balance is below amount, producing no payload,
\* and succeed at the boundary balance = amount.
C8_InsufficientBalance ==
    IsProofCall =>
        /\ (cin.amount > 0 /\ cin.balance < cin.amount)
              => (cout.err = "Insufficient balance" /\ DOMAIN cout = {"err"})
        /\ (cin.amount > 0 /\ cin.balance = cin.amount) => cout.err = ""

C8_Witness ==
    /\ cop = "generateTransferProof"
    /\ cin.amount = 2
    /\ cin.balance = 1
    /\ cout.err = "Insufficient balance"

\* C9: both proof generators fail with AmountNotPositive for every
\* amount <= 0, also when balance < amount: the amount check comes first.
C9_AmountNotPositive ==
    (IsProofCall /\ cin.amount <= 0) => cout.err = "Amount must be positive"

C9_Witness ==
    /\ cop = "generateWithdrawProof"
    /\ cin.amount = 0
    /\ cin.balance < cin.amount
    /\ cout.err = "Amount must be positive"

\* C10: with amount > 0 and balance >= amount, generateTransferProof returns
\* proofHash = H(H(H(sk, balance), amount), nullifier), the nullifier as
\* given, and the serializations of exactly the two ciphertexts passed in;
\* generateWithdrawProof the same chain with its one ciphertext.
C10_ProofPayload ==
    (IsProofCall /\ cin.amount > 0 /\ cin.balance >= cin.amount) =>
        /\ cout.err = ""
        /\ cout.proofHash =
              pedersen(pedersen(pedersen(cin.sk, cin.balance), cin.amount), cin.nullifier)
        /\ cout.nullifier = cin.nullifier
        /\ cop = "generateTransferProof" =>
              /\ cout.senderNewBalance = serializeCiphertext(cin.newSenderBalance)
              /\ cout.recipientNewBalance = serializeCiphertext(cin.newRecipientBalance)
        /\ cop = "generateWithdrawProof" =>
              cout.newBalance = serializeCiphertext(cin.newBalance)

C10_Witness ==
    /\ cop = "generateTransferProof"
    /\ cin.amount = 1
    /\ cin.balance = MaxAmount
    /\ cin.nullifier = 99
    /\ cin.newSenderBalance # cin.newRecipientBalance
    /\ cout.err = ""
    /\ cout.proofHash # 0

\* ------------------------------------------------------------------------
\*  Properties of the crypto library at the edges (checked under SpecEdge
\*  unless a formula names an operation of SpecCrypto)
\* ------------------------------------------------------------------------
IsProofPair == cop \in {"generateTransferProof_pair", "generateWithdrawProof_pair"}

\* C11: the proof hash binds the updated ciphertexts: two successful
\* generateTransferProof (or generateWithdrawProof) calls with the same
\* (sk, balance, amount, nullifier) and different new ciphertexts return
\* different proofHash values.
C11_HashBindsCiphertexts ==
    (/\ IsProofPair
     /\ cout.first.err = ""
     /\ cout.second.err = ""
     /\ cin.newA # cin.newB)
        => cout.first.proofHash # cout.second.proofHash

\* C12: for ciphertexts encrypting a < b under one key, decrypt of
\* subtractCiphertexts(Enc(a), Enc(b)) returns NotFound for any maxAmount;
\* it never returns an integer such as b - a.
C12_NegativeNotFound ==
    (cop = "subtract" /\ cin.a < cin.b) => cout.dec = NotFound

\* C13: decrypt never returns an integer above maxAmount: a ciphertext whose
\* plaintext m exceeds maxAmount decrypts to NotFound, also when m is below
\* the square of the baby-step table size.
C13_AboveMaxNotFound ==
    (cop = "encrypt_decrypt" /\ cin.amount > cin.maxAmount) => cout.dec = NotFound

\* The message point M = c2 - sk*c1 that decrypt recovers in a "decrypt" call.
DecryptedPoint == pointSub(cout.ct.c2, scalarMul(cout.ct.c1, cin.skB))

\* C14: for every maxAmount >= 0 decrypt returns 0 exactly when M is the
\* Identity; it returns that 0 without running the search (also for a
\* maxAmount on which the search would throw); otherwise the outcome is a
\* non-zero integer or the distinct NotFound value, never a thrown error.
C14_ZeroIffIdentity ==
    cop = "decrypt" =>
        /\ isZero(DecryptedPoint) => cout.dec = Found(0)
        /\ cin.maxAmount >= 0 =>
              /\ (cout.dec = Found(0)) <=> isZero(DecryptedPoint)
              /\ "err" \notin DOMAIN cout.dec
              /\ ~cout.dec.found => (cout.dec = NotFound /\ cout.dec # Found(0))

C14_Witness ==
    /\ cop = "decrypt"
    /\ cin.amount = 0
    /\ cin.skA = cin.skB
    /\ cin.maxAmount = 0
    /\ ~isZero(cout.ct.c1)
    /\ isZero(DecryptedPoint)
    /\ cout.dec = Found(0)

\* C15: decrypt with a private key other than the owner's never returns the
\* true plaintext: it returns NotFound or a different integer.
C15_WrongKeyNeverPlaintext ==
    (cop = "decrypt" /\ cin.skA # cin.skB /\ cin.maxAmount >= 0)
        => cout.dec # Found(cin.amount)

\* C16: encrypt fails with its invalid-amount error for every amount < 0,
\* before drawing randomness and without a ciphertext, and succeeds for every
\* amount >= 0 with c1 = r*G and c2 = m*G + r*PK; for amount 0 the m*G term
\* is the Identity, so c2 = r*PK.
C16_EncryptAmountDomain ==
    cop = "encrypt" =>
        /\ cin.amount < 0 =>
              /\ cout.err = "Amount must be non-negative"
              /\ cout.draws = 0
              /\ DOMAIN cout = {"err", "draws"}
        /\ cin.amount >= 0 =>
              /\ cout.err = ""
              /\ cout.ct.c1 = scalarMulG(cin.r)
              /\ cout.ct.c2 = pointAdd(scalarMulG(cin.amount), scalarMul(cin.publicKey, cin.r))
        /\ cin.amount = 0 => cout.ct.c2 = scalarMul(cin.publicKey, cin.r)

C16_Witness ==
    /\ cop = "encrypt"
    /\ cin.amount = 0
    /\ cout.err = ""
    /\ ~isZero(cout.ct.c2)
    /\ cout.ct.c2 = scalarMul(cin.publicKey, cin.r)

TransferResultFields ==
    {"err", "newSenderBalance", "newRecipientBalance", "senderSerialized", "recipientSerialized"}

\* C17 as stated: computeTransferBalances succeeds for every amount and
\* returns both ciphertexts and both serialized forms.  The encrypt call
\* inside throws on a negative amount.
C17_AlwaysSucceeds ==
    cop = "computeTransferBalances_anyAmount" =>
        /\ cout.err = ""
        /\ DOMAIN cout = TransferResultFields

\* C17 (amended): computeTransferBalances makes no balance-sufficiency check:
\* for every amount >= 0, also one above the sender's plaintext balance, it
\* returns both updated ciphertexts and their serialized forms; for an
\* amount < 0 it fails with encrypt's "Amount must be non-negative" and
\* returns nothing.
C17_NoSufficiencyCheck ==
    cop = "computeTransferBalances_anyAmount" =>
        /\ cin.amount >= 0 =>
              /\ cout.err = ""
              /\ DOMAIN cout = TransferResultFields
              /\ cout.senderSerialized = serializeCiphertext(cout.newSenderBalance)
              /\ cout.recipientSerialized = serializeCiphertext(cout.newRecipientBalance)
        /\ cin.amount < 0 => cout = [err |-> "Amount must be non-negative"]

C17_Witness ==
    /\ cop = "computeTransferBalances_anyAmount"
    /\ cin.amount > cin.s
    /\ cin.s > 0
    /\ cout.err = ""
    /\ cout.newSenderBalance # cin.senderBalance

TakesSuppliedScalar ==
    cop \in {"derivePublicKey", "encryptWithRandomness", "decrypt_suppliedKey"}

\* C18: a supplied scalar outside [1, n-1] (private key of derivePublicKey
\* or decrypt, randomness of encryptWithRandomness) is rejected with
\* KeyDomainError, not reduced mod n or mapped to the Identity.
C18_ScalarDomainChecked ==
    (TakesSuppliedScalar /\ cin.scalar \notin 1..(CURVE_ORDER - 1))
        => cout.err = "KeyDomainError"

\* C19: every KeyPair of generateKeyPair has privateKey in [1, n-1] and
\* publicKey = privateKey*G, never the Identity, also when the random bytes
\* reduce to 0 mod n; the randomness encrypt draws is in the same range, so
\* c1 of a fresh ciphertext is never the Identity.
C19_KeyPairInRange ==
    cop = "generateKeyPair" =>
        /\ cout.kp.privateKey \in 1..(CURVE_ORDER - 1)
        /\ cout.kp.publicKey = (cout.kp.privateKey * G) % CURVE_ORDER
        /\ ~isZero(cout.kp.publicKey)
        /\ cout.enc.r \in 1..(CURVE_ORDER - 1)
        /\ ~isZero(cout.enc.ct.c1)

C19_Witness ==
    /\ cop = "generateKeyPair"
    /\ cin.raw = CURVE_ORDER
    /\ cin.rawR = 0
    /\ cout.kp.privateKey = 1
    /\ cout.kp.publicKey = G
    /\ cout.enc.ct.c1 = G

C21_DomainsSeparated ==
    cop = "generateDomainNullifier" => cout.transfer # cout.withdraw

C21_Witness ==
    /\ cop = "generateDomainNullifier"
    /\ cin.nonce = 1
    /\ cout.transfer # cout.withdraw
    /\ cout.transfer = pedersen(pedersen(cin.sk, 1), 1)

\* ------------------------------------------------------------------------
\*  Properties of the nonce counter (checked under SpecNonce)
\* ------------------------------------------------------------------------
Sentinel == [c1_x |-> 0, c1_y |-> 0, c2_x |-> 0, c2_y |-> 0]

\* C23: serializeCiphertext(ct) is the all-zero tuple exactly when ct is the
\* canonical zero ciphertext (Identity, Identity), and a ciphertext returned by
\* encrypt never serializes to the all-zero tuple.
C23_SentinelIffZero ==
    /\ cop = "serializeCiphertext" =>
          (cout.ser = Sentinel <=> cin.ct = zeroCiphertext)
    /\ (cop = "encrypt" /\ cout.err = "") =>
          serializeCiphertext(cout.ct) # Sentinel

C23_Witness ==
    /\ cop = "serializeCiphertext"
    /\ cin.ct.c1 = ZERO
    /\ cin.ct.c2 # ZERO
    /\ cout.ser # Sentinel

\* C24: serialization round-trips for every ciphertext, mixed ones included:
\* an Identity component serializes to (0,0), the other component to its own
\* affine coordinates, and the ciphertext rebuilt from the wire tuple by
\* syncFromChain and by ctFromSer is the original one.
C24_RoundTrip ==
    cop = "serializeCiphertext" =>
        LET ct == cin.ct
            a1 == toAffine(ct.c1)
            a2 == toAffine(ct.c2)
        IN  /\ (ct.c1 = ZERO => cout.ser.c1_x = 0 /\ cout.ser.c1_y = 0)
            /\ (ct.c2 = ZERO => cout.ser.c2_x = 0 /\ cout.ser.c2_y = 0)
            /\ (ct.c1 # ZERO => cout.ser.c1_x = a1.x /\ cout.ser.c1_y = a1.y /\ a1.x # 0)
            /\ (ct.c2 # ZERO => cout.ser.c2_x = a2.x /\ cout.ser.c2_y = a2.y /\ a2.x # 0)
            /\ cout.wire = cout.ser
            /\ cout.synced = ct
            /\ cout.rebuilt = ct

C24_Witness ==
    /\ cop = "serializeCiphertext"
    /\ cin.ct.c1 # ZERO
    /\ cin.ct.c2 = ZERO
    /\ cout.synced = cin.ct
    /\ cout.rebuilt = cin.ct

\* C25: register_name succeeds only when the pool binds the given public key
\* to the calling address itself.
C25_CallerOwnsKey ==
    \A i \in 1..Len(nameOwner) :
        pool.address_to_pk_hash[nameOwner[i].caller]
            = hash_pk(nameOwner[i].pk.x, nameOwner[i].pk.y)

\* C26: every accepted name keeps the public key it was registered with and
\* no name or address is accepted twice; a call with a taken name fails with
\* NAME_TAKEN, a call with a free name from an address that already holds one
\* fails with ADDRESS_ALREADY_NAMED, and a failed call leaves the four
\* mappings as they were.
C26_NameBindingsFixed ==
    /\ \A i \in 1..Len(nameOwner) :
          /\ resolve(registry, nameOwner[i].name) = nameOwner[i].pk
          /\ get_name(registry, nameOwner[i].caller) = nameOwner[i].name
          /\ is_name_taken(registry, nameOwner[i].name)
          /\ \A j \in 1..Len(nameOwner) :
                i # j => /\ nameOwner[i].name # nameOwner[j].name
                         /\ nameOwner[i].caller # nameOwner[j].caller
    /\ \A a \in Addrs : \A b \in Addrs :
          (a # b /\ get_name(registry, a) # 0) => get_name(registry, a) # get_name(registry, b)
    /\ regLast.caller # 0 =>
          /\ is_name_taken(regLast.pre, regLast.name) => regLast.err = "NAME_TAKEN"
          /\ (/\ regLast.name # 0
              /\ ~is_name_taken(regLast.pre, regLast.name)
              /\ get_name(regLast.pre, regLast.caller) # 0)
                => regLast.err = "ADDRESS_ALREADY_NAMED"
          /\ regLast.err # "" => registry = regLast.pre

C26_Witness ==
    /\ Len(nameOwner) = 1
    /\ regLast.caller = nameOwner[1].caller
    /\ regLast.err = "ADDRESS_ALREADY_NAMED"
    /\ registry = regLast.pre
    /\ regLast.err = "ADDRESS_ALREADY_NAMED"
    /\ registry = regLast.pre

\* C27: a wallet shows decryptedBalance 0 only when the ciphertext installed
\* by syncFromChain / updateLocal really decrypts to 0; a NotFound decryption
\* is never presented as plaintext zero.
C27_ZeroMeansZero ==
    \A a \in Users :
        wallet[a].decryptedBalance = 0 =>
            decryptBalance(wallet[a].encryptedBalance, UserSk(a), DefaultMaxAmount) = Found(0)

\* A transfer of wallet a to its own key lands, the ledger still holding the
\* balance snapshot the wallet computed both ciphertexts from.
SelfTransferLands(a) ==
    /\ wallet[a].pc = "submitted"
    /\ wallet[a].tx.op = "transfer"
    /\ wallet[a].tx.recipient = UserPk(a)
    /\ get_encrypted_balance(pool, UserPk(a).x, UserPk(a).y)
          = serializeCt(wallet[a].encryptedBalance)
    /\ wallet'[a].pc = "refresh"

\* C28: a transfer to the sender's own registered key leaves the plaintext of
\* the stored balance as it was before the transfer.
C28_SelfTransferNeutral ==
    [][\A a \in Users : SelfTransferLands(a) => StoredPlain(a)' = StoredPlain(a)]_vars

TVLAccounted ==
    /\ pool.total_value_locked = deposited - withdrawn
    /\ pool.total_value_locked >= 0

\* Every withdraw call that asks for more than total_value_locked and passes
\* the asserts on the caller, the nullifier and the proof panics with
\* INSUFFICIENT_POOL_BALANCE and hands back the storage it started from.
WithdrawAboveLockedPanics ==
    \A caller \in Addrs, amount \in CallAmounts, ct \in CallCts,
       proof_hash \in CallProofHashes, nullifier \in CallNullifiers :
        (/\ amount > pool.total_value_locked
         /\ pool.address_to_pk_hash[caller] # 0
         /\ nullifier \notin pool.nullifiers
         /\ proof_hash # 0)
            => withdraw(pool, caller, amount, ct, proof_hash, nullifier)
                 = Panic(pool, "INSUFFICIENT_POOL_BALANCE")

\* A withdraw step asking for more than total_value_locked fails and leaves
\* the stored balances, the nullifier set and the locked value as they were.
WithdrawAboveLockedReverts ==
    (last'.op = "withdraw" /\ last'.amount > pool.total_value_locked)
        => /\ last'.err # ""
           /\ pool' = pool
           /\ (last'.nullifier \notin pool.nullifiers
                  => ~is_nullifier_spent(pool', last'.nullifier))
           /\ withdrawn' = withdrawn

\* C29: total_value_locked always equals accepted deposits minus accepted
\* withdrawals and is never negative; a withdraw of more than
\* total_value_locked (by a registered caller with an unspent nullifier and a
\* proof) fails with INSUFFICIENT_POOL_BALANCE, and the caller's balance
\* ciphertext and the nullifier set are what they were before the call.
C29_LockedValueAccounting ==
    /\ [](TVLAccounted /\ WithdrawAboveLockedPanics)
    /\ [][WithdrawAboveLockedReverts]_vars

C29_Witness ==
    /\ last.op = "withdraw"
    /\ last.err = "INSUFFICIENT_POOL_BALANCE"
    /\ last.amount > pool.total_value_locked
    /\ pool.total_value_locked > 0
    /\ withdrawn > 0
    /\ ~is_nullifier_spent(pool, last.nullifier)

\* C30: nameStatus is "available" only for the name currently in the input
\* field, and handleRegister only submits a name whose own availability check
\* produced that status.
C30_AvailableIsCurrent ==
    /\ nameForm.nameStatus = "available" => nameForm.statusFor = nameForm.veilName
    /\ nameForm.submitted # <<>> => nameForm.statusFor = nameForm.submitted

\* C22: across any sequence of nextNullifier calls the counter values used
\* are strictly increasing, so no (privateKey, counter, domain) is used twice.
C22_CounterMonotonic ==
    \A i \in 1..Len(nonceHook.used) : \A j \in 1..Len(nonceHook.used) :
        i < j => nonceHook.used[i].counter < nonceHook.used[j].counter

====
